---- MODULE Spec2Model ----
(***************************************************************************)
(* A model of validate_drp's repeatability calculators                     *)
(* (python/lsst/validate/drp/calcSrd.py and util.py).                      *)
(*                                                                         *)
(* Numbers.  The code computes on floats; the model computes exactly on    *)
(* integers by fixing units:                                               *)
(*   - an angle "in radians" is an integer count of quarter arcminutes,    *)
(*     so arcminToRadians(a) = 4*a and radiansToMilliarcsec(r) = 15000*r;  *)
(*   - a magnitude is an integer count of 0.1 mag;                         *)
(*   - the one non-finite float is NaN (there are no infinities), which  *)
(*     every arithmetic operator propagates and on which every comparison  *)
(*     answers FALSE, as IEEE comparisons do;                              *)
(*   - a value that is a square root (np.std, the rms of computeWidths)    *)
(*     is kept exactly, as the triple <<c, p, q>> that stands for          *)
(*     c * sqrt(p / q).                                                    *)
(***************************************************************************)
EXTENDS Integers, Sequences, FiniteSets, TLC

VARIABLES
    groupView,   \* calcAMx: the table of matched observations (a list of groups)
    D,           \* calcAMx: the fiducial distance argument [arcmin]
    width,       \* calcAMx: the width argument [arcmin]
    magRange,    \* calcAMx: the magRange argument, NoneArg when omitted
    amxPc,       \* calcAMx: "idle" | "call" | "done"
    amx,         \* calcAMx: the returned Struct, and the log of what the loop did
    mvArgs,      \* matchVisitComputeDistance: its six list arguments
    mvPc,        \* matchVisitComputeDistance: "idle" | "call" | "done"
    mvOut,       \* matchVisitComputeDistance: the returned list of distances
    paGroupView, \* calcPA1, calcPA2: the table, each group as the list of its magKey values
    pa1,         \* calcPA1: its outcome (not called, the returned Struct, or the error raised)
    pa2,         \* calcPA2: its outcome
    rdArray,     \* getRandomDiff called on its own: the caller's array
    rdCalls,     \* getRandomDiff called on its own: the outcome of each call so far
    idsArgs,     \* constructDataIds: its arguments (ccdKeyName as <<>> when omitted)
    idsPc,       \* constructDataIds: "idle" | "call" | "done"
    idsOut,      \* constructDataIds: the returned list of data IDs
    lists,       \* repeated calcAMx calls: the list objects that exist, by reference 1, 2, ...
    amxCalls     \* repeated calcAMx calls: the log of the calls so far

amxVars == <<groupView, D, width, magRange, amxPc, amx>>

mvVars == <<mvArgs, mvPc, mvOut>>

paVars == <<paGroupView, pa1, pa2>>

rdVars == <<rdArray, rdCalls>>

idsVars == <<idsArgs, idsPc, idsOut>>

listVars == <<lists, amxCalls>>

vars == <<amxVars, mvVars, paVars, rdVars, idsVars, listVars>>

----------------------------------------------------------------------------
(* Floats *)

NaN == -1000000

IsFinite(x) == x # NaN

AllFinite(xs) == \A i \in 1..Len(xs) : IsFinite(xs[i])

Abs(x) == IF x < 0 THEN -x ELSE x

\* a <= b and a < b on floats: FALSE when either side is not a number
FLe(a, b) == IsFinite(a) /\ IsFinite(b) /\ a <= b
FLt(a, b) == IsFinite(a) /\ IsFinite(b) /\ a < b

\* a - b and |x| on floats
FSub(a, b) == IF IsFinite(a) /\ IsFinite(b) THEN a - b ELSE NaN
FAbs(x) == IF IsFinite(x) THEN Abs(x) ELSE NaN

RECURSIVE Sum(_)
Sum(xs) == IF xs = <<>> THEN 0 ELSE Head(xs) + Sum(Tail(xs))

RECURSIVE SumSq(_)
SumSq(xs) == IF xs = <<>> THEN 0 ELSE Head(xs) * Head(xs) + SumSq(Tail(xs))

\* Python's s[a:b] on a list (0-based, end excluded, clipped to the list)
Slice(s, a, b) ==
    LET lo == IF a > Len(s) THEN Len(s) ELSE a
        hi == IF b > Len(s) THEN Len(s) ELSE b
    IN  IF hi <= lo THEN <<>> ELSE SubSeq(s, lo + 1, hi)

\* s[i] with Python's 0-based index
At(s, i) == s[i + 1]

RECURSIVE Insert(_, _)
Insert(x, sorted) ==
    IF sorted = <<>> THEN <<x>>
    ELSE IF x <= Head(sorted) THEN <<x>> \o sorted
    ELSE <<Head(sorted)>> \o Insert(x, Tail(sorted))

RECURSIVE Sort(_)
Sort(xs) == IF xs = <<>> THEN <<>> ELSE Insert(Head(xs), Sort(Tail(xs)))

----------------------------------------------------------------------------
(* Spherical geometry *)

\* The haversine distance.  It is |dra| for two points of the equator and
\* |ddec| for two points of one meridian, which is where the model's
\* coordinates lie (coord_dec is 0 or NaN); NaN in, NaN out.
sphDist(ra1, dec1, ra2, dec2) ==
    IF ~AllFinite(<<ra1, dec1, ra2, dec2>>) THEN NaN
    ELSE IF ra1 = ra2 THEN Abs(dec1 - dec2)
    ELSE Abs(ra1 - ra2)

arcminToRadians(arcmin) == 4 * arcmin

\* np.rad2deg(rad)*3600*1000 on a list of roots <<c, p, q>>: a quarter
\* arcminute is 15000 milliarcseconds
radiansToMilliarcsec(rad) ==
    [k \in 1..Len(rad) |-> <<15000 * rad[k][1], rad[k][2], rad[k][3]>>]

\* matchVisitComputeDistance without the check that the coordinates are finite
matchVisitNoFiniteCheck(visit_obj1, ra_obj1, dec_obj1, visit_obj2, ra_obj2, dec_obj2) ==
    LET n1 == Len(visit_obj1)
        n2 == Len(visit_obj2)
        order == [k \in 1..(n1 * n2) |-> <<(k - 1) \div n2, (k - 1) % n2>>]
        accepted(p) == At(visit_obj1, p[1]) = At(visit_obj2, p[2])
        hits == SelectSeq(order, accepted)
    IN  [k \in 1..Len(hits) |->
            sphDist(At(ra_obj1, hits[k][1]), At(dec_obj1, hits[k][1]),
                    At(ra_obj2, hits[k][2]), At(dec_obj2, hits[k][2]))]

\* The double loop "for i ... for j ..." visits the index pairs (i, j) in
\* row-major order and appends one distance for each pair it accepts.
matchVisitComputeDistance(visit_obj1, ra_obj1, dec_obj1, visit_obj2, ra_obj2, dec_obj2) ==
    LET n1 == Len(visit_obj1)
        n2 == Len(visit_obj2)
        order == [k \in 1..(n1 * n2) |-> <<(k - 1) \div n2, (k - 1) % n2>>]
        accepted(p) ==
            /\ At(visit_obj1, p[1]) = At(visit_obj2, p[2])
            /\ AllFinite(<<At(ra_obj1, p[1]), At(dec_obj1, p[1]),
                           At(ra_obj2, p[2]), At(dec_obj2, p[2])>>)
        hits == SelectSeq(order, accepted)
    IN  [k \in 1..Len(hits) |->
            sphDist(At(ra_obj1, hits[k][1]), At(dec_obj1, hits[k][1]),
                    At(ra_obj2, hits[k][2]), At(dec_obj2, hits[k][2]))]

\* afwCoord.averageCoord as averageRaDec uses it: every record of the group
\* enters the average (nothing is filtered), so one non-finite coordinate
\* makes the mean non-finite.  On the equator the spherical mean is the
\* arithmetic mean; the model's coordinates are multiples of 4 and a group has
\* one or two records, so the division is exact.
averageRaDec(ra, dec) ==
    IF ~AllFinite(ra) \/ ~AllFinite(dec) THEN <<NaN, NaN>>
    ELSE <<Sum(ra) \div Len(ra), Sum(dec) \div Len(dec)>>

----------------------------------------------------------------------------
(* The grouped table *)

\* A group (one object) is [object |-> its number in the table,
\*                         recs   |-> its records, one per visit it was seen in],
\* a record [visit, coord_ra, coord_dec, mag].

\* group.get(name): the column of one field over the group's records
Get(cat, name) ==
    [i \in 1..Len(cat.recs) |->
        CASE name = "id" -> 10 * cat.object + i
          [] name = "coord_ra" -> cat.recs[i].coord_ra
          [] name = "coord_dec" -> cat.recs[i].coord_dec
          [] name = "object" -> cat.object
          [] name = "visit" -> cat.recs[i].visit
          [] name = "base_PsfFlux_mag" -> cat.recs[i].mag]

averageRaFromCat(cat) == averageRaDec(Get(cat, "coord_ra"), Get(cat, "coord_dec"))[1]

averageDecFromCat(cat) == averageRaDec(Get(cat, "coord_ra"), Get(cat, "coord_dec"))[2]

----------------------------------------------------------------------------
(* calcAMx *)

\* magRange omitted
NoneArg == <<>>

\* [17.0, 21.5]
DefaultMagRange == <<170, 215>>

importantNames == <<"id", "coord_ra", "coord_dec", "object", "visit", "base_PsfFlux_mag">>

\* Twice np.median (twice, to stay in the integers when the count is even);
\* NaN for an empty list, which np.median answers with a warning, not an error.
medianTimes2(xs) ==
    IF xs = <<>> THEN NaN
    ELSE LET s == Sort(xs)
             n == Len(s)
         IN  IF n % 2 = 1 THEN 2 * s[(n + 1) \div 2]
             ELSE s[n \div 2] + s[n \div 2 + 1]

\* magInRange with the upper bound included
magInRangeClosed(cat, mr) ==
    LET medianMag2 == medianTimes2(SelectSeq(Get(cat, "base_PsfFlux_mag"), IsFinite))
    IN  FLe(2 * mr[1], medianMag2) /\ FLe(medianMag2, 2 * mr[2])

magInRange(cat, mr) ==
    LET mag == Get(cat, "base_PsfFlux_mag")
        finiteMag == SelectSeq(mag, IsFinite)
        medianMag2 == medianTimes2(finiteMag)
    IN  FLe(2 * mr[1], medianMag2) /\ FLt(medianMag2, 2 * mr[2])

\* objectsInAnnulus with the upper bound included
objectsInAnnulusClosed(dist, annulusRadians) ==
    LET positions == [k \in 1..Len(dist) |-> k - 1]
        inside(k) == FLe(annulusRadians[1], At(dist, k)) /\ FLe(At(dist, k), annulusRadians[2])
    IN  SelectSeq(positions, inside)

\* np.where((annulusRadians[0] <= dist) & (dist < annulusRadians[1])):
\* the 0-based positions in dist, ascending
objectsInAnnulus(dist, annulusRadians) ==
    LET positions == [k \in 1..Len(dist) |-> k - 1]
        inside(k) == FLe(annulusRadians[1], At(dist, k)) /\ FLt(At(dist, k), annulusRadians[2])
    IN  SelectSeq(positions, inside)

\* The index into visit, ra and dec that the inner loop uses for the object
\* found at position k of objectsInAnnulus, when the outer loop is at obj1
obj2Index(obj1, k) == k

\* np.std of a non-empty list, as the root <<1, p, q>>:
\* std^2 = mean((x - mean(x))^2) = (n * sum(x^2) - sum(x)^2) / n^2
npStd(xs) == <<1, Len(xs) * SumSq(xs) - Sum(xs) * Sum(xs), Len(xs) * Len(xs)>>

\* One pass of the inner loop body: what it appends to rmsDistances
pairSample(visit, ra, dec, obj1, obj2) ==
    LET distances == matchVisitComputeDistance(At(visit, obj1), At(ra, obj1), At(dec, obj1),
                                               At(visit, obj2), At(ra, obj2), At(dec, obj2))
        finiteEntries == SelectSeq(distances, IsFinite)
    IN  IF distances = <<>> THEN <<>>
        ELSE IF Len(finiteEntries) > 0 THEN <<npStd(finiteEntries)>>
        ELSE <<>>

\* The passes of the inner loop for one obj1, in order: for each, the two
\* indexes whose visit/ra/dec lists go to matchVisitComputeDistance, the
\* object whose mean position put it in the annulus (partner), and what the
\* pass appended
innerPasses(visit, ra, dec, meanRa, meanDec, annulusRadians, obj1) ==
    LET rest == Slice(meanRa, obj1 + 1, Len(meanRa))
        dist == [k \in 1..Len(rest) |->
                    sphDist(At(meanRa, obj1), At(meanDec, obj1),
                            At(meanRa, obj1 + k), At(meanDec, obj1 + k))]
        found == objectsInAnnulus(dist, annulusRadians)
    IN  [n \in 1..Len(found) |->
            LET obj2 == obj2Index(obj1, found[n])
            IN  [obj1 |-> obj1, obj2 |-> obj2, partner |-> obj1 + 1 + found[n],
                 appended |-> pairSample(visit, ra, dec, obj1, obj2)]]

RECURSIVE outerLoop(_, _, _, _, _, _, _)
outerLoop(visit, ra, dec, meanRa, meanDec, annulusRadians, obj1) ==
    IF obj1 >= Len(meanRa) THEN <<>>
    ELSE innerPasses(visit, ra, dec, meanRa, meanDec, annulusRadians, obj1)
         \o outerLoop(visit, ra, dec, meanRa, meanDec, annulusRadians, obj1 + 1)

RECURSIVE appendedOf(_)
appendedOf(passes) ==
    IF passes = <<>> THEN <<>> ELSE Head(passes).appended \o appendedOf(Tail(passes))

\* The call: the returned Struct (AMx, D, annulus, magRange) and, for the
\* properties, what the call did on the way (kept, meanRa, meanDec, passes)
calcAMx(gv, d, w, mrArg) ==
    LET mr == IF mrArg = NoneArg THEN DefaultMagRange ELSE mrArg
        inRange(cat) == magInRange(cat, mr)
        groupViewInMagRange == SelectSeq(gv, inRange)
        jump == Len(groupViewInMagRange)
        matchKeyOutput ==
            [n \in 1..(Len(importantNames) * jump) |->
                Get(groupViewInMagRange[((n - 1) % jump) + 1],
                    importantNames[((n - 1) \div jump) + 1])]
        ra == Slice(matchKeyOutput, 1 * jump, 2 * jump)
        dec == Slice(matchKeyOutput, 2 * jump, 3 * jump)
        visit == Slice(matchKeyOutput, 4 * jump, 5 * jump)
        \* groupView.aggregate(f): f of every group, in table order
        meanRa == [k \in 1..jump |-> averageRaFromCat(groupViewInMagRange[k])]
        meanDec == [k \in 1..jump |-> averageDecFromCat(groupViewInMagRange[k])]
        annulus == <<d - (w \div 2), d + (w \div 2)>>
        annulusRadians == <<arcminToRadians(annulus[1]), arcminToRadians(annulus[2])>>
        passes == outerLoop(visit, ra, dec, meanRa, meanDec, annulusRadians, 0)
        rmsDistances == appendedOf(passes)
    IN  [AMx |-> radiansToMilliarcsec(rmsDistances),
         D |-> d,
         annulus |-> annulus,
         magRange |-> mr,
         kept |-> [k \in 1..jump |-> groupViewInMagRange[k].object],
         meanRa |-> meanRa,
         meanDec |-> meanDec,
         passes |-> passes]

\* amx before the call returns
NoStruct == [AMx |-> <<>>, D |-> 0, annulus |-> <<>>, magRange |-> <<>>, kept |-> <<>>, meanRa |-> <<>>, meanDec |-> <<>>, passes |-> <<>>]

----------------------------------------------------------------------------
(* Robust statistics and photometric repeatability *)

\* np.random.shuffle leaves a permutation of its argument: perm is the
\* permutation the random source picks, copy[i] = array[perm[i]]
Shuffles(n) == {f \in [1..n -> 1..n] : \A i, j \in 1..n : i # j => f[i] # f[j]}

\* getRandomDiff that subtracts the first shuffled element from itself
getRandomDiffSame(array, perm) ==
    LET copy == [i \in 1..Len(array) |-> array[perm[i]]]
    IN  IF Len(copy) < 2
        THEN [raised |-> TRUE, value |-> NaN, first |-> 0, second |-> 0, array |-> array]
        ELSE [raised |-> FALSE, value |-> FSub(At(copy, 0), At(copy, 0)),
              first |-> perm[1], second |-> perm[1], array |-> array]

\* getRandomDiff that takes the last shuffled element, copy[-1], as the second
getRandomDiffLast(array, perm) ==
    LET copy == [i \in 1..Len(array) |-> array[perm[i]]]
    IN  IF Len(copy) < 1
        THEN [raised |-> TRUE, value |-> NaN, first |-> 0, second |-> 0, array |-> array]
        ELSE [raised |-> FALSE, value |-> FSub(At(copy, 0), At(copy, Len(copy) - 1)),
              first |-> perm[1], second |-> perm[Len(copy)], array |-> array]

\* getRandomDiff that shuffles the caller's array itself, not a copy
getRandomDiffInPlace(array, perm) ==
    LET copy == [i \in 1..Len(array) |-> array[perm[i]]]
    IN  IF Len(copy) < 2
        THEN [raised |-> TRUE, value |-> NaN, first |-> 0, second |-> 0, array |-> copy]
        ELSE [raised |-> FALSE, value |-> FSub(At(copy, 0), At(copy, 1)),
              first |-> perm[1], second |-> perm[2], array |-> copy]

\* The outcome of getRandomDiff(array) when the shuffle picks perm: raised
\* (IndexError: copy[1], or copy[0], is out of bounds) or the value returned;
\* first and second are the positions in array of copy[0] and copy[1], and
\* array is the caller's array after the call (the copy is what is shuffled).
getRandomDiff(array, perm) ==
    LET copy == [i \in 1..Len(array) |-> array[perm[i]]]
    IN  IF Len(copy) < 2
        THEN [raised |-> TRUE, value |-> NaN, first |-> 0, second |-> 0, array |-> array]
        ELSE [raised |-> FALSE, value |-> FSub(At(copy, 0), At(copy, 1)),
              first |-> perm[1], second |-> perm[2], array |-> array]

\* (1000/math.sqrt(2)) * getRandomDiff(array): with magnitudes in 0.1 mag,
\* 100 times the difference, in units of 1/sqrt(2) millimag
getRandomDiffRmsInMas(array, perm) ==
    LET diff == getRandomDiff(array, perm)
    IN  [diff EXCEPT !.value = IF IsFinite(diff.value) THEN 100 * diff.value ELSE NaN]

\* 100 * np.percentile(a, q) of a non-empty list, by linear interpolation:
\* with pos = q/100 * (n-1), a[floor(pos)] + frac(pos) * (a[floor(pos)+1] - a[floor(pos)])
\* on the sorted list; NaN when a holds a NaN
percentileTimes100(a, q) ==
    IF ~AllFinite(a) THEN NaN
    ELSE LET sorted == Sort(a)
             n == Len(sorted)
             lo == (q * (n - 1)) \div 100
             hi == IF lo + 1 > n - 1 THEN n - 1 ELSE lo + 1
         IN  100 * At(sorted, lo) + ((q * (n - 1)) % 100) * (At(sorted, hi) - At(sorted, lo))

\* computeWidths(array): rmsSigma as the root <<1, sum(x^2), n>>, and iqrSigma
\* as 100 * (P75 - P25), in units of 1 / (100 * 2 * norm.ppf(0.75))
computeWidths(array) ==
    IF ~AllFinite(array) THEN <<<<1, NaN, 1>>, NaN>>
    ELSE <<<<1, SumSq(array), Len(array)>>, percentileTimes100(array, 75) - percentileTimes100(array, 25)>>

\* np.mean of a group's magnitudes, as the fraction <<sum, n>>
npMean(array) == IF ~AllFinite(array) THEN <<NaN, 1>> ELSE <<Sum(array), Len(array)>>

\* an outcome before the call
NotCalled == [status |-> "none"]

\* the error that left getRandomDiff
Raised == [status |-> "raised"]

\* calcPA1 when the shuffle of group k picks perms[k]
calcPA1(gv, perms) ==
    LET draws == [k \in 1..Len(gv) |-> getRandomDiffRmsInMas(gv[k], perms[k])]
        diffs == [k \in 1..Len(gv) |-> draws[k].value]
        means == [k \in 1..Len(gv) |-> npMean(gv[k])]
        widths == computeWidths(diffs)
    IN  IF \E k \in 1..Len(gv) : draws[k].raised THEN Raised
        ELSE [status |-> "returned", rms |-> widths[1], iqr |-> widths[2], diffs |-> diffs, means |-> means]

\* The table after groupView.aggregate(getRandomDiffRmsInMas): each group's
\* magnitudes as the call on them left them, for the groups the loop of
\* aggregate reached before an error ended it
groupsAfterAggregate(gv, perms) ==
    LET draws == [k \in 1..Len(gv) |-> getRandomDiffRmsInMas(gv[k], perms[k])]
        reached(k) == \A j \in 1..(k - 1) : ~draws[j].raised
    IN  [k \in 1..Len(gv) |-> IF reached(k) THEN draws[k].array ELSE gv[k]]

PF1 == [minimum |-> 20, design |-> 10, stretch |-> 5]

\* the percentiles taken as the outlier fractions themselves
PF1_fractions == <<PF1.minimum, PF1.design, PF1.stretch>>

PF1_percentiles == <<100 - PF1.minimum, 100 - PF1.design, 100 - PF1.stretch>>

\* calcPA2 when the shuffle of group k picks perms[k]; minimum, design and
\* stretch are 100 times the thresholds; diffs is what the call drew
calcPA2(gv, perms) ==
    LET draws == [k \in 1..Len(gv) |-> getRandomDiffRmsInMas(gv[k], perms[k])]
        diffs == [k \in 1..Len(gv) |-> draws[k].value]
        absDiffs == [k \in 1..Len(gv) |-> FAbs(diffs[k])]
    IN  IF \E k \in 1..Len(gv) : draws[k].raised THEN Raised
        ELSE [status |-> "returned",
              minimum |-> percentileTimes100(absDiffs, PF1_percentiles[1]),
              design |-> percentileTimes100(absDiffs, PF1_percentiles[2]),
              stretch |-> percentileTimes100(absDiffs, PF1_percentiles[3]),
              PF1 |-> PF1,
              diffs |-> diffs]

----------------------------------------------------------------------------
(* The magRange list objects of calcAMx *)

\* A list object is [list |-> its two elements now, origin |-> who made it:
\* "default" (calcAMx, for an omitted magRange) or "caller"]; a reference is
\* its position in lists, and None is the reference NoneRef.
NoneRef == 0

\* "if magRange is None: magRange = [17.0, 21.5]" with the list display
\* evaluated once, as a mutable default value of the parameter would be: every
\* call that omits magRange gets the one list object
magRangeOrSharedDefault(objects, ref) ==
    LET made == {r \in 1..Len(objects) : objects[r].origin = "default"}
    IN  IF ref # NoneRef THEN [objects |-> objects, ref |-> ref]
        ELSE IF made # {} THEN [objects |-> objects, ref |-> CHOOSE r \in made : TRUE]
        ELSE [objects |-> Append(objects, [list |-> DefaultMagRange, origin |-> "default"]),
              ref |-> Len(objects) + 1]

\* "if magRange is None: magRange = [17.0, 21.5]": the list display makes a
\* new list object each time it is evaluated; the objects after the statement
\* and the reference magRange then holds
magRangeOrDefault(objects, ref) ==
    IF ref # NoneRef THEN [objects |-> objects, ref |-> ref]
    ELSE [objects |-> Append(objects, [list |-> DefaultMagRange, origin |-> "default"]),
          ref |-> Len(objects) + 1]

\* no sequence of calcAMx calls is being run
IdleLists == lists = <<>> /\ amxCalls = <<>>

----------------------------------------------------------------------------
(* constructDataIds *)

\* A value of a data ID: the string s, the integer n
StrValue(s) == [kind |-> "str", str |-> s, int |-> 0]

IntValue(n) == [kind |-> "int", str |-> "", int |-> n]

\* the default of the parameter ccdKeyName
DefaultCcdKeyName == "ccd"

\* The dict display {'visit': v, 'filter': filter, ccdKeyName: c}: the items
\* are stored left to right, so a key given twice keeps the last value
dataId(v, filter, ccdKeyName, c) ==
    [key \in {"visit", "filter", ccdKeyName} |->
        IF key = ccdKeyName THEN IntValue(c)
        ELSE IF key = "filter" THEN StrValue(filter)
        ELSE IntValue(v)]

\* constructDataIds with the loops nested the other way round: for c, for v
constructDataIdsCcdMajor(filter, visits, ccds, ccdKeyName) ==
    LET nv == Len(visits)
        nc == Len(ccds)
    IN  [n \in 1..(nv * nc) |->
            dataId(At(visits, (n - 1) % nv), filter, ccdKeyName, At(ccds, (n - 1) \div nv))]

\* The comprehension "for v in visits for c in ccds": visits outermost
constructDataIds(filter, visits, ccds, ccdKeyName) ==
    LET nv == Len(visits)
        nc == Len(ccds)
    IN  [n \in 1..(nv * nc) |->
            dataId(At(visits, (n - 1) \div nc), filter, ccdKeyName, At(ccds, (n - 1) % nc))]

NoIdsArgs == [filter |-> "", visits |-> <<>>, ccds |-> <<>>, ccdKeyName |-> <<>>]

\* constructDataIds is not being run
IdleIds == idsArgs = NoIdsArgs /\ idsPc = "idle" /\ idsOut = <<>>

----------------------------------------------------------------------------
(* The tables calcAMx is run on *)

MaxGroups == 3

Visits == {1, 2}

\* the visits a group was seen in: one record per visit, in visit order
VisitLists == {<<1>>, <<2>>, <<1, 2>>}

\* the same without the groups seen in visit 2 alone
VisitListsFrom1 == {<<1>>, <<1, 2>>}

\* a magnitude inside the default range
TypicalMags == {180}

\* The groups seen in one of visitLists whose records take their
\* (coord_ra, coord_dec) from coords and their magnitude from mags
GroupsOver(visitLists, coords, mags) ==
    UNION {{[i \in 1..Len(vl) |-> [visit |-> vl[i], coord_ra |-> c[i][1], coord_dec |-> c[i][2], mag |-> m[i]]] :
                c \in [1..Len(vl) -> coords], m \in [1..Len(vl) -> mags]} : vl \in visitLists}

\* the table made of the groups g[1], ..., g[n], numbered in table order
TableOf(g) == [k \in DOMAIN g |-> [object |-> k - 1, recs |-> g[k]]]

\* positions vary, on the equator
PositionGroups == GroupsOver(VisitLists, {<<0, 0>>, <<4, 0>>, <<12, 0>>}, TypicalMags)

\* some coordinates are not finite
NonFiniteGroups == GroupsOver(VisitListsFrom1, {<<0, 0>>, <<NaN, 0>>, <<0, NaN>>}, TypicalMags)

\* magnitudes vary around the bounds of the default and of an explicit range
MagnitudeGroups == GroupsOver(VisitListsFrom1, {<<0, 0>>}, {170, 215, NaN})

ExplicitMagRange == <<215, 220>>

NoArgs == [visit_obj1 |-> <<>>, ra_obj1 |-> <<>>, dec_obj1 |-> <<>>, visit_obj2 |-> <<>>, ra_obj2 |-> <<>>, dec_obj2 |-> <<>>]

\* calcAMx is not being run
IdleAMx ==
    /\ groupView = <<>> /\ D = 0 /\ width = 0 /\ magRange = NoneArg
    /\ amxPc = "idle" /\ amx = NoStruct

\* matchVisitComputeDistance is not being run on its own
IdleMatch == mvArgs = NoArgs /\ mvPc = "idle" /\ mvOut = <<>>

\* calcPA1 and calcPA2 are not being run
IdlePA == paGroupView = <<>> /\ pa1 = NotCalled /\ pa2 = NotCalled

\* getRandomDiff is not being run on its own
IdleDiff == rdArray = <<>> /\ rdCalls = <<>>

InitAMx ==
    /\ \E n \in 0..MaxGroups :
          \/ \E g \in [1..n -> PositionGroups] :
                groupView = TableOf(g) /\ D = 2 /\ magRange = NoneArg
          \/ \E g \in [1..n -> NonFiniteGroups] :
                groupView = TableOf(g) /\ D = 1 /\ magRange = NoneArg
          \/ \E g \in [1..n -> MagnitudeGroups] :
                groupView = TableOf(g) /\ D = 1 /\ magRange \in {NoneArg, ExplicitMagRange}
    /\ width = 2
    /\ amxPc = "call"
    /\ amx = NoStruct
    /\ IdleMatch /\ IdlePA /\ IdleDiff /\ IdleIds /\ IdleLists

CallCalcAMx ==
    /\ amxPc = "call"
    /\ amx' = calcAMx(groupView, D, width, magRange)
    /\ amxPc' = "done"
    /\ UNCHANGED <<groupView, D, width, magRange>>
    /\ UNCHANGED <<mvVars, paVars, rdVars, idsVars, listVars>>

NextAMx == CallCalcAMx

SpecAMx == InitAMx /\ [][NextAMx]_vars

----------------------------------------------------------------------------
(* Properties of calcAMx *)

AMxDone == amxPc = "done"

\* the number of objects that passed the magnitude filter
Jump == Len(amx.kept)

\* the separation of the mean positions of the kept objects at 0-based
\* positions i and j
Separation(i, j) == sphDist(At(amx.meanRa, i), At(amx.meanDec, i), At(amx.meanRa, j), At(amx.meanDec, j))

AnnulusLow == arcminToRadians(D - (width \div 2))

AnnulusHigh == arcminToRadians(D + (width \div 2))

\* the loop compared object i with object j and found j in the annulus
Selected(i, j) == \E n \in 1..Len(amx.passes) : amx.passes[n].obj1 = i /\ amx.passes[n].partner = j

\* C1: every pass of calcAMx's inner loop hands matchVisitComputeDistance the
\* visit/ra/dec lists of object obj1 and of the object whose mean position
\* was found in obj1's annulus.
C1_PairDataOfSelectedPair ==
    AMxDone => \A n \in 1..Len(amx.passes) : amx.passes[n].obj2 = amx.passes[n].partner

\* C2: the lists handed to matchVisitComputeDistance are those of two objects
\* with first index < second index, and no pair of objects is handed over twice.
C2_NoSelfPairNoRepeat ==
    AMxDone =>
        /\ \A n \in 1..Len(amx.passes) : amx.passes[n].obj1 < amx.passes[n].obj2
        /\ \A n, m \in 1..Len(amx.passes) :
              n # m => {amx.passes[n].obj1, amx.passes[n].obj2} # {amx.passes[m].obj1, amx.passes[m].obj2}

\* The scenario of C3: two objects, both kept, both seen in visits 1 and 2,
\* every coordinate finite, the second at the same offset d # 0 in right
\* ascension from the first in both visits, and |d| inside the annulus.
TwoObjectsAtOffset(d) ==
    /\ Len(groupView) = 2
    /\ Jump = 2
    /\ \A k \in 1..2 :
          /\ Get(groupView[k], "visit") = <<1, 2>>
          /\ AllFinite(Get(groupView[k], "coord_ra"))
          /\ Get(groupView[k], "coord_dec") = <<0, 0>>
    /\ d # 0
    /\ \A i \in 1..2 : Get(groupView[2], "coord_ra")[i] - Get(groupView[1], "coord_ra")[i] = d
    /\ AnnulusLow <= Abs(d) /\ Abs(d) < AnnulusHigh

\* the root <<c, p, q>> is the number 15000 * dist: dist radians in milliarcseconds
IsMilliarcsecOf(root, dist) == root[1] = 15000 /\ root[2] = dist * dist * root[3]

\* C3: in that scenario calcAMx returns exactly one sample, and it is d in
\* milliarcseconds (the RMS of the two shared-visit distances d and d).
C3_TwoObjectsGiveTheirOffset ==
    AMxDone =>
        \A d \in -12..12 :
            TwoObjectsAtOffset(d) => Len(amx.AMx) = 1 /\ IsMilliarcsecOf(amx.AMx[1], Abs(d))

\* C4 as claimed: a pair i < j of kept objects is selected exactly when its
\* separation s has D - width/2 <= s <= D + width/2.
C4_SelectedIffInClosedAnnulus ==
    AMxDone =>
        \A i, j \in 0..(Jump - 1) :
            i < j => (Selected(i, j) <=> FLe(AnnulusLow, Separation(i, j)) /\ FLe(Separation(i, j), AnnulusHigh))

\* C4 as the code has it: a pair i < j of kept objects is selected exactly
\* when D - width/2 <= s < D + width/2 (the upper bound excluded), and once.
C4_SelectedIffInHalfOpenAnnulus ==
    AMxDone =>
        /\ \A i, j \in 0..(Jump - 1) :
              i < j => (Selected(i, j) <=> FLe(AnnulusLow, Separation(i, j)) /\ FLt(Separation(i, j), AnnulusHigh))
        /\ \A n \in 1..Len(amx.passes) :
              /\ amx.passes[n].obj1 < amx.passes[n].partner
              /\ amx.passes[n].partner < Jump
        /\ \A n, m \in 1..Len(amx.passes) :
              n # m => <<amx.passes[n].obj1, amx.passes[n].partner>> # <<amx.passes[m].obj1, amx.passes[m].partner>>

\* a pair at exactly the lower bound was selected, a pair at exactly the upper
\* bound was not
C4_Witness ==
    /\ AMxDone
    /\ \E i, j \in 0..(Jump - 1) : i < j /\ Separation(i, j) = AnnulusLow /\ Selected(i, j)
    /\ \E i, j \in 0..(Jump - 1) : i < j /\ Separation(i, j) = AnnulusHigh /\ ~Selected(i, j)

\* the magnitude range the call filters with
EffectiveMagRange == IF magRange = NoneArg THEN <<170, 215>> ELSE magRange

\* x is the element at 0-based position k of xs sorted
IsOrderStatistic(xs, k, x) ==
    /\ \E i \in 1..Len(xs) : xs[i] = x
    /\ Cardinality({i \in 1..Len(xs) : xs[i] < x}) <= k
    /\ k < Cardinality({i \in 1..Len(xs) : xs[i] <= x})

\* the group has a finite magnitude and the median m of its finite magnitudes
\* has lo <= m < hi: with l and u the lower and upper middle elements,
\* m = (l + u) / 2
MedianInRange(cat, lo, hi) ==
    LET finite == SelectSeq(Get(cat, "base_PsfFlux_mag"), IsFinite)
        n == Len(finite)
    IN  /\ n > 0
        /\ \E l, u \in {finite[i] : i \in 1..n} :
              /\ IsOrderStatistic(finite, (n - 1) \div 2, l)
              /\ IsOrderStatistic(finite, n \div 2, u)
              /\ 2 * lo <= l + u
              /\ l + u < 2 * hi

\* C5: calcAMx keeps exactly the groups whose finite magnitudes have a median
\* m with magRange[0] <= m < magRange[1], in table order; a group with no
\* finite magnitude is dropped, and the call returns.
C5_KeptIffMedianInRange ==
    AMxDone =>
        /\ \A k \in 1..Len(groupView) :
              (\E n \in 1..Jump : amx.kept[n] = groupView[k].object)
                  <=> MedianInRange(groupView[k], EffectiveMagRange[1], EffectiveMagRange[2])
        /\ \A n, m \in 1..Jump : n < m => amx.kept[n] < amx.kept[m]

\* one call met a group with median magRange[0], which it kept, a group with
\* median magRange[1], which it dropped, and a group with no finite magnitude
C5_Witness ==
    /\ AMxDone
    /\ \E k \in 1..Len(groupView) :
          /\ Get(groupView[k], "base_PsfFlux_mag") = <<EffectiveMagRange[1]>>
          /\ \E n \in 1..Jump : amx.kept[n] = groupView[k].object
    /\ \E k \in 1..Len(groupView) :
          /\ Get(groupView[k], "base_PsfFlux_mag") = <<EffectiveMagRange[2], EffectiveMagRange[2]>>
          /\ ~\E n \in 1..Jump : amx.kept[n] = groupView[k].object
    /\ \E k \in 1..Len(groupView) :
          /\ Get(groupView[k], "base_PsfFlux_mag") = <<NaN, NaN>>
          /\ ~\E n \in 1..Jump : amx.kept[n] = groupView[k].object

----------------------------------------------------------------------------
(* matchVisitComputeDistance on its own *)

MaxVisitRecords == 2

MatchCoords == {<<0, 0>>, <<4, 0>>, <<NaN, 0>>, <<0, NaN>>}

\* the per-visit records of one object: a visit and a position each
ObjectRecords ==
    UNION {[1..n -> [visit : Visits, coord : MatchCoords]] : n \in 0..MaxVisitRecords}

InitMatch ==
    /\ \E o1 \in ObjectRecords, o2 \in ObjectRecords :
          mvArgs = [visit_obj1 |-> [i \in DOMAIN o1 |-> o1[i].visit],
                    ra_obj1 |-> [i \in DOMAIN o1 |-> o1[i].coord[1]],
                    dec_obj1 |-> [i \in DOMAIN o1 |-> o1[i].coord[2]],
                    visit_obj2 |-> [j \in DOMAIN o2 |-> o2[j].visit],
                    ra_obj2 |-> [j \in DOMAIN o2 |-> o2[j].coord[1]],
                    dec_obj2 |-> [j \in DOMAIN o2 |-> o2[j].coord[2]]]
    /\ mvPc = "call"
    /\ mvOut = <<>>
    /\ IdleAMx /\ IdlePA /\ IdleDiff /\ IdleIds /\ IdleLists

CallMatchVisitComputeDistance ==
    /\ mvPc = "call"
    /\ mvOut' = matchVisitComputeDistance(mvArgs.visit_obj1, mvArgs.ra_obj1, mvArgs.dec_obj1,
                                          mvArgs.visit_obj2, mvArgs.ra_obj2, mvArgs.dec_obj2)
    /\ mvPc' = "done"
    /\ UNCHANGED mvArgs
    /\ UNCHANGED <<amxVars, paVars, rdVars, idsVars, listVars>>

NextMatch == CallMatchVisitComputeDistance

SpecMatch == InitMatch /\ [][NextMatch]_vars

----------------------------------------------------------------------------
(* Properties of matchVisitComputeDistance *)

\* the 0-based index pairs (i, j) of records of one visit with all four
\* coordinates finite
SharedFinitePairs ==
    {p \in (0..(Len(mvArgs.visit_obj1) - 1)) \X (0..(Len(mvArgs.visit_obj2) - 1)) :
        /\ At(mvArgs.visit_obj1, p[1]) = At(mvArgs.visit_obj2, p[2])
        /\ IsFinite(At(mvArgs.ra_obj1, p[1])) /\ IsFinite(At(mvArgs.dec_obj1, p[1]))
        /\ IsFinite(At(mvArgs.ra_obj2, p[2])) /\ IsFinite(At(mvArgs.dec_obj2, p[2]))}

\* how many pairs of SharedFinitePairs come before p, by i then by j
RankOf(p) ==
    Cardinality({q \in SharedFinitePairs : q[1] < p[1] \/ (q[1] = p[1] /\ q[2] < p[2])})

\* C6: the result holds one distance for each pair of SharedFinitePairs, in
\* order of i then j, and nothing else: it is empty when no visit is shared,
\* and every entry is the (finite) distance of two records of one visit.
C6_OneDistancePerSharedFinitePair ==
    mvPc = "done" =>
        /\ Len(mvOut) = Cardinality(SharedFinitePairs)
        /\ \A p \in SharedFinitePairs :
              mvOut[RankOf(p) + 1] = Abs(At(mvArgs.ra_obj1, p[1]) - At(mvArgs.ra_obj2, p[2]))
                                     + Abs(At(mvArgs.dec_obj1, p[1]) - At(mvArgs.dec_obj2, p[2]))
        /\ \A k \in 1..Len(mvOut) : IsFinite(mvOut[k])
        /\ ((\A i \in 1..Len(mvArgs.visit_obj1), j \in 1..Len(mvArgs.visit_obj2) :
                mvArgs.visit_obj1[i] # mvArgs.visit_obj2[j]) => mvOut = <<>>)

\* a call that returned a distance, skipped a pair of records of one visit
\* for a non-finite coordinate, and skipped a pair of different visits
C6_Witness ==
    /\ mvPc = "done"
    /\ Len(mvOut) = 1
    /\ mvOut[1] > 0
    /\ \E i \in 1..Len(mvArgs.visit_obj1), j \in 1..Len(mvArgs.visit_obj2) :
          /\ mvArgs.visit_obj1[i] = mvArgs.visit_obj2[j]
          /\ ~AllFinite(<<mvArgs.ra_obj1[i], mvArgs.dec_obj1[i], mvArgs.ra_obj2[j], mvArgs.dec_obj2[j]>>)
    /\ \E i \in 1..Len(mvArgs.visit_obj1), j \in 1..Len(mvArgs.visit_obj2) :
          mvArgs.visit_obj1[i] # mvArgs.visit_obj2[j]

----------------------------------------------------------------------------
(* calcPA1, calcPA2 and getRandomDiff *)

MaxPAGroups == 2

MaxArrayLen == 2

MaxCalls == 2

PAMags == {170, 180, NaN}

\* the groups calcPA1 and calcPA2 are run on: of one, two and three records,
\* with some magnitudes not finite
PAGroups ==
    {<<170>>,
     <<170, 180>>, <<180, NaN>>, <<NaN, NaN>>,
     <<170, 180, 200>>, <<170, NaN, 180>>}

\* one permutation for each group of the table
ShuffleChoices(gv) ==
    {perms \in [1..Len(gv) -> UNION {Shuffles(n) : n \in 0..3}] :
        \A k \in 1..Len(gv) : perms[k] \in Shuffles(Len(gv[k]))}

InitPA ==
    /\ \/ /\ \E n \in 1..MaxPAGroups : paGroupView \in [1..n -> PAGroups]
          /\ IdleDiff
       \/ /\ \E n \in 0..MaxArrayLen : rdArray \in [1..n -> PAMags]
          /\ rdCalls = <<>>
          /\ paGroupView = <<>>
    /\ pa1 = NotCalled
    /\ pa2 = NotCalled
    /\ IdleAMx /\ IdleMatch /\ IdleIds /\ IdleLists

CallCalcPA1 ==
    /\ paGroupView # <<>>
    /\ pa1 = NotCalled
    /\ \E perms \in ShuffleChoices(paGroupView) :
          /\ pa1' = calcPA1(paGroupView, perms)
          /\ paGroupView' = groupsAfterAggregate(paGroupView, perms)
    /\ UNCHANGED pa2
    /\ UNCHANGED <<amxVars, mvVars, rdVars, idsVars, listVars>>

CallCalcPA2 ==
    /\ paGroupView # <<>>
    /\ pa2 = NotCalled
    /\ \E perms \in ShuffleChoices(paGroupView) :
          /\ pa2' = calcPA2(paGroupView, perms)
          /\ paGroupView' = groupsAfterAggregate(paGroupView, perms)
    /\ UNCHANGED pa1
    /\ UNCHANGED <<amxVars, mvVars, rdVars, idsVars, listVars>>

CallGetRandomDiff ==
    /\ paGroupView = <<>>
    /\ Len(rdCalls) < MaxCalls
    /\ \E perm \in Shuffles(Len(rdArray)) :
          LET out == getRandomDiff(rdArray, perm)
          IN  /\ rdCalls' = Append(rdCalls, out)
              /\ rdArray' = out.array
    /\ UNCHANGED <<amxVars, mvVars, paVars, idsVars, listVars>>

NextPA == CallCalcPA1 \/ CallCalcPA2 \/ CallGetRandomDiff

SpecPA == InitPA /\ [][NextPA]_vars

----------------------------------------------------------------------------
(* Properties of calcPA1, calcPA2 and getRandomDiff *)

PA2Returned == pa2.status = "returned"

\* C7 as claimed, on thresholds that are numbers: stretch <= design <= minimum.
C7_StretchDesignMinimum ==
    PA2Returned /\ AllFinite(<<pa2.minimum, pa2.design, pa2.stretch>>) =>
        pa2.stretch <= pa2.design /\ pa2.design <= pa2.minimum

\* C7 as the code has it: the thresholds are the 80th, 90th and 95th
\* percentiles of |diff|, so minimum <= design <= stretch whenever calcPA2
\* returns and every difference it drew is finite.
C7_MinimumDesignStretch ==
    PA2Returned /\ AllFinite(pa2.diffs) =>
        /\ AllFinite(<<pa2.minimum, pa2.design, pa2.stretch>>)
        /\ pa2.minimum <= pa2.design
        /\ pa2.design <= pa2.stretch

\* calcPA2 returned three different thresholds
C7_Witness ==
    /\ PA2Returned
    /\ AllFinite(<<pa2.minimum, pa2.design, pa2.stretch>>)
    /\ pa2.minimum < pa2.design
    /\ pa2.design < pa2.stretch

\* the absolute values of a list of differences, sorted: its multiset
AbsSorted(diffs) == Sort([k \in 1..Len(diffs) |-> FAbs(diffs[k])])

\* C8: once calcPA1 and calcPA2 have both returned for one table, the
\* differences calcPA2 took percentiles of (the |diff|) are, as a multiset,
\* those of the diffs calcPA1 returned.
C8_PA2UsesTheDiffsOfPA1 ==
    pa1.status = "returned" /\ PA2Returned => AbsSorted(pa2.diffs) = AbsSorted(pa1.diffs)

\* C9: on an array of two or more elements every call of getRandomDiff
\* returns array[p] - array[q] for two different positions p and q; on
\* [a, b] that is a - b or b - a.
C9_DifferenceOfTwoPositions ==
    Len(rdArray) >= 2 =>
        \A c \in 1..Len(rdCalls) :
            /\ ~rdCalls[c].raised
            /\ rdCalls[c].first \in 1..Len(rdArray)
            /\ rdCalls[c].second \in 1..Len(rdArray)
            /\ rdCalls[c].first # rdCalls[c].second
            /\ rdCalls[c].value = FSub(rdArray[rdCalls[c].first], rdArray[rdCalls[c].second])
            /\ Len(rdArray) = 2 =>
                  rdCalls[c].value \in {FSub(rdArray[1], rdArray[2]), FSub(rdArray[2], rdArray[1])}

\* two calls on one array [a, b], a # b, returned a - b and b - a
C9_Witness ==
    /\ Len(rdArray) = 2
    /\ AllFinite(rdArray)
    /\ rdArray[1] # rdArray[2]
    /\ Len(rdCalls) = 2
    /\ rdCalls[1].value = rdArray[1] - rdArray[2]
    /\ rdCalls[2].value = rdArray[2] - rdArray[1]

\* C10: getRandomDiff on an array of one element or none ends in an error,
\* and so do calcPA1 and calcPA2 on a table with a group of one record:
\* neither returns.
C10_SingleRecordRaises ==
    /\ Len(rdArray) < 2 => \A c \in 1..Len(rdCalls) : rdCalls[c].raised
    /\ (\E k \in 1..Len(paGroupView) : Len(paGroupView[k]) < 2) =>
          pa1.status # "returned" /\ pa2.status # "returned"

\* calcPA1 and calcPA2 both raised on a table whose first group has two
\* records and whose second has one
C10_Witness ==
    /\ Len(paGroupView) = 2
    /\ Len(paGroupView[1]) = 2
    /\ Len(paGroupView[2]) = 1
    /\ pa1 = Raised
    /\ pa2 = Raised

\* the records of a group of the calcAMx table whose two coordinates are finite
FiniteRecords(cat) ==
    LET finiteAt(i) == IsFinite(cat.recs[i].coord_ra) /\ IsFinite(cat.recs[i].coord_dec)
    IN  SelectSeq([i \in 1..Len(cat.recs) |-> i], finiteAt)

\* C11, for calcPA1 and calcPA2: with the non-finite magnitudes of a group
\* filtered out, the difference drawn from a group that has two finite
\* magnitudes is finite, and the mean of a group that has a finite magnitude
\* is the mean of its finite magnitudes.
C11_MagnitudesFilteredOut ==
    \A k \in 1..Len(paGroupView) :
        LET finiteMag == SelectSeq(paGroupView[k], IsFinite)
        IN  /\ pa1.status = "returned" =>
                  /\ Len(finiteMag) >= 2 => IsFinite(pa1.diffs[k])
                  /\ Len(finiteMag) >= 1 => pa1.means[k] = <<Sum(finiteMag), Len(finiteMag)>>
            /\ pa2.status = "returned" =>
                  (Len(finiteMag) >= 2 => IsFinite(pa2.diffs[k]))

\* C11, for calcAMx: with the non-finite coordinates of an object filtered
\* out, the mean position of a kept object that has a record with finite
\* coordinates is finite, and every sample is a number.
C11_CoordinatesFilteredOut ==
    AMxDone =>
        /\ \A n \in 1..Jump :
              FiniteRecords(groupView[amx.kept[n] + 1]) # <<>> =>
                  IsFinite(amx.meanRa[n]) /\ IsFinite(amx.meanDec[n])
        /\ \A n \in 1..Len(amx.AMx) : AllFinite(amx.AMx[n])

\* C11: non-finite magnitudes and coordinates are filtered out before use in
\* every calculator (calcPA1, calcPA2, calcAMx), and none makes a call raise.
C11_NonFiniteValuesFilteredOut ==
    /\ C11_MagnitudesFilteredOut
    /\ C11_CoordinatesFilteredOut
    /\ (\A k \in 1..Len(paGroupView) : Len(paGroupView[k]) >= 2) =>
          pa1 # Raised /\ pa2 # Raised

\* the visits the kept object at 0-based position i was seen in
VisitsOfKept(i) ==
    LET cat == groupView[At(amx.kept, i) + 1]
    IN  {cat.recs[r].visit : r \in 1..Len(cat.recs)}

\* C12: calcAMx returns for lack of data instead of raising: a selected pair
\* of objects that share no visit appends no sample, an object with no
\* neighbour in its annulus has no pass and appends nothing, and when no
\* group is kept or no pass appends a sample the call returns an empty sample
\* list together with D, annulus and magRange.
C12_LackOfDataAppendsNothing ==
    AMxDone =>
        /\ \A n \in 1..Len(amx.passes) :
              VisitsOfKept(amx.passes[n].obj1) \cap VisitsOfKept(amx.passes[n].partner) = {} =>
                  amx.passes[n].appended = <<>>
        /\ \A i \in 0..(Jump - 1) :
              (\A j \in (i + 1)..(Jump - 1) :
                    ~(FLe(AnnulusLow, Separation(i, j)) /\ FLt(Separation(i, j), AnnulusHigh)))
                  => \A n \in 1..Len(amx.passes) : amx.passes[n].obj1 # i
        /\ (Jump = 0 \/ \A n \in 1..Len(amx.passes) : amx.passes[n].appended = <<>>) =>
              /\ amx.AMx = <<>>
              /\ amx.D = D
              /\ amx.annulus = <<D - (width \div 2), D + (width \div 2)>>
              /\ amx.magRange = EffectiveMagRange

\* C14: no call of getRandomDiff, calcPA1 or calcPA2 changes the caller's
\* sequences: the array handed to getRandomDiff and the magnitudes of every
\* group of the table have the same elements in the same order after the
\* call as before (only a copy is shuffled).
C14_InputArrayUnchanged == [][rdArray' = rdArray /\ paGroupView' = paGroupView]_vars

\* two calls of getRandomDiff on one array [a, b], a # b, the first of which
\* drew b before a, left the array as it was
C14_Witness ==
    /\ Len(rdArray) = 2
    /\ rdArray[1] # rdArray[2]
    /\ Len(rdCalls) = 2
    /\ rdCalls[1].first = 2
    /\ rdCalls[1].second = 1
    /\ rdCalls[1].array = rdArray
    /\ rdCalls[2].array = rdArray

----------------------------------------------------------------------------
(* constructDataIds on its own *)

MaxVisitsLen == 2

MaxCcdsLen == 2

Filters == {"g", "r"}

VisitIds == {100, 200}

\* one ccd number is also a visit number
CcdIds == {10, 100}

\* ccdKeyName: omitted, a name of the ccd field, or the name of another field
CcdKeyNames == {<<>>, <<"ccd">>, <<"ccdnum">>, <<"visit">>, <<"filter">>}

InitIds ==
    /\ \E f \in Filters, nv \in 0..MaxVisitsLen, nc \in 0..MaxCcdsLen :
          \E vs \in [1..nv -> VisitIds], cs \in [1..nc -> CcdIds], key \in CcdKeyNames :
              idsArgs = [filter |-> f, visits |-> vs, ccds |-> cs, ccdKeyName |-> key]
    /\ idsPc = "call"
    /\ idsOut = <<>>
    /\ IdleAMx /\ IdleMatch /\ IdlePA /\ IdleDiff /\ IdleLists

CallConstructDataIds ==
    /\ idsPc = "call"
    /\ idsOut' = constructDataIds(idsArgs.filter, idsArgs.visits, idsArgs.ccds,
                                  IF idsArgs.ccdKeyName = <<>> THEN DefaultCcdKeyName
                                  ELSE idsArgs.ccdKeyName[1])
    /\ idsPc' = "done"
    /\ UNCHANGED idsArgs
    /\ UNCHANGED <<amxVars, mvVars, paVars, rdVars, listVars>>

NextIds == CallConstructDataIds

SpecIds == InitIds /\ [][NextIds]_vars

----------------------------------------------------------------------------
(* Properties of constructDataIds *)

\* the key the ccd is stored under
EffectiveCcdKeyName == IF idsArgs.ccdKeyName = <<>> THEN "ccd" ELSE idsArgs.ccdKeyName[1]

\* the data ID made for visits[i] and ccds[j] (0-based), visit-major
DataIdOf(i, j) == At(idsOut, i * Len(idsArgs.ccds) + j)

----------------------------------------------------------------------------
(* calcAMx called again and again *)

MaxAMxCalls == 2

MaxLists == 2

\* the lists a caller makes or turns a list into
CallerRanges == {<<170, 215>>, <<215, 220>>}

\* Two objects at one position, each seen once: one at the lower bound of the
\* default range, one at its upper bound
RangeTable ==
    TableOf(<<<<[visit |-> 1, coord_ra |-> 0, coord_dec |-> 0, mag |-> 170]>>,
              <<[visit |-> 1, coord_ra |-> 0, coord_dec |-> 0, mag |-> 215]>>>>)

InitLists ==
    /\ groupView = RangeTable /\ D = 1 /\ width = 2 /\ magRange = NoneArg
    /\ amxPc = "idle" /\ amx = NoStruct
    /\ lists = <<>>
    /\ amxCalls = <<>>
    /\ IdleMatch /\ IdlePA /\ IdleDiff /\ IdleIds

\* One call calcAMx(groupView, D, width, magRange), magRange a reference or
\* None: the log keeps what the call was given, the objects before and after
\* it, the reference the Struct's magRange holds, and the Struct
CallCalcAMxWith(ref) ==
    LET held == magRangeOrDefault(lists, ref)
    IN  /\ Len(amxCalls) < MaxAMxCalls
        /\ Len(held.objects) <= MaxLists
        /\ lists' = held.objects
        /\ amxCalls' = Append(amxCalls,
              [given |-> ref, before |-> lists, after |-> held.objects, magRange |-> held.ref,
               struct |-> calcAMx(groupView, D, width, held.objects[held.ref].list)])
        /\ UNCHANGED <<amxVars, mvVars, paVars, rdVars, idsVars>>

CallCalcAMxOmitted == CallCalcAMxWith(NoneRef)

CallCalcAMxExplicit == \E ref \in 1..Len(lists) : CallCalcAMxWith(ref)

\* the caller makes a list of its own
CallerMakesList ==
    /\ Len(lists) < MaxLists
    /\ \E r \in CallerRanges : lists' = Append(lists, [list |-> r, origin |-> "caller"])
    /\ UNCHANGED amxCalls
    /\ UNCHANGED <<amxVars, mvVars, paVars, rdVars, idsVars>>

\* the caller changes a list it holds, its own or the magRange of a result
CallerMutatesList ==
    /\ \E ref \in 1..Len(lists), r \in CallerRanges :
          /\ lists[ref].list # r
          /\ lists' = [lists EXCEPT ![ref].list = r]
    /\ UNCHANGED amxCalls
    /\ UNCHANGED <<amxVars, mvVars, paVars, rdVars, idsVars>>

NextLists == CallCalcAMxOmitted \/ CallCalcAMxExplicit \/ CallerMakesList \/ CallerMutatesList

SpecLists == InitLists /\ [][NextLists]_vars

----------------------------------------------------------------------------
(* Properties of repeated calcAMx calls *)

\* the objects of the table whose median magnitude m has lo <= m < hi
KeptWith(lo, hi) ==
    LET inRange(cat) == MedianInRange(cat, lo, hi)
        keptGroups == SelectSeq(groupView, inRange)
    IN  [k \in 1..Len(keptGroups) |-> keptGroups[k].object]

\* C15: whatever calls came before and whatever the caller did to the lists
\* it holds, a call that omits magRange filters with [17.0, 21.5] and returns
\* a magRange equal to [17.0, 21.5], in a list no earlier code holds; and no
\* call changes a list that existed before it, so an explicit magRange is
\* returned as it was passed.
C15_DefaultMagRangeIsFresh ==
    \A c \in 1..Len(amxCalls) :
        /\ amxCalls[c].given = NoneRef =>
              /\ amxCalls[c].struct.magRange = <<170, 215>>
              /\ amxCalls[c].struct.kept = KeptWith(170, 215)
              /\ amxCalls[c].after[amxCalls[c].magRange].list = <<170, 215>>
              /\ amxCalls[c].magRange \notin 1..Len(amxCalls[c].before)
        /\ \A ref \in 1..Len(amxCalls[c].before) : amxCalls[c].after[ref] = amxCalls[c].before[ref]
        /\ amxCalls[c].given # NoneRef =>
              /\ amxCalls[c].magRange = amxCalls[c].given
              /\ amxCalls[c].struct.magRange = amxCalls[c].before[amxCalls[c].given].list

\* a call omitted magRange, the caller changed the list that call returned,
\* and the next call that omitted magRange still returned [17.0, 21.5]
C15_Witness ==
    /\ Len(amxCalls) = 2
    /\ amxCalls[1].given = NoneRef
    /\ amxCalls[2].given = NoneRef
    /\ amxCalls[2].before[amxCalls[1].magRange].list = <<215, 220>>
    /\ amxCalls[2].struct.magRange = <<170, 215>>
    /\ amxCalls[2].struct.kept = <<0>>

====
